---- MODULE Spec2Model ----
(***************************************************************************)
(* serde-config-docs: the schema model (FieldInfo, ConfigSchemaBuilder),   *)
(* the Markdown renderer (generate_markdown, write_field_docs), the derive *)
(* macro's field processing and naming transforms, and the export harness. *)
(*                                                                         *)
(* Text is a sequence of one-character strings, so that quoting, case      *)
(* conversion and line splitting act on characters as the code does.       *)
(* Option<T> is a sequence of length 0 (None) or 1 (Some(x)).              *)
(***************************************************************************)
EXTENDS Integers, Sequences, FiniteSets, TLC

VARIABLES
    fi, fiOp, fiNestedCalled, fiCalls,
    bFields, bAdded, bSchema,
    rFields, rOptions, rOut, wField, wCalls,
    dType, dIdx, dBuilder, dSchema, dDocs,
    nIdent, nStyle, nOut,
    eType, eEnv, ePc, eFormat, eFileName, eDocs, eFs, eFs0

varsFI == <<fi, fiOp, fiNestedCalled, fiCalls>>
varsB == <<bFields, bAdded, bSchema>>
varsR == <<rFields, rOptions, rOut, wField, wCalls>>
varsD == <<dType, dIdx, dBuilder, dSchema, dDocs>>
varsN == <<nIdent, nStyle, nOut>>
varsE == <<eType, eEnv, ePc, eFormat, eFileName, eDocs, eFs, eFs0>>
vars == <<varsFI, varsB, varsR, varsD, varsN, varsE>>

\* ------------------------------------------------------------------ bounds

\* Setter calls applied to one FieldInfo after new().
MaxSetterCalls == 3
\* add_field calls on one builder.
MaxAddField == 3
\* Descriptors (leaves and sections, all depths) of one rendered schema.
MaxNodes == 4
\* Length of an identifier handed to the naming transforms.
MaxIdLen == 4
\* Fields declared by a generated struct definition.
MaxDeclFields == 2
\* The depth argument of a direct call of the field writer.
MaxDepthArg == 1

\* ------------------------------------------------------------------ Option

None == <<>>
Some(x) == <<x>>
IsSome(o) == Len(o) = 1
Unwrap(o) == o[1]

\* ------------------------------------------------------------------ text

NL == "\n"
\* The grave accent, a character a TLA+ string literal cannot hold.
BT == "GRAVE"
LowerLetters == <<"a","b","c","d","e","f","g","h","i","j","k","l","m",
                  "n","o","p","q","r","s","t","u","v","w","x","y","z">>
UpperLetters == <<"A","B","C","D","E","F","G","H","I","J","K","L","M",
                  "N","O","P","Q","R","S","T","U","V","W","X","Y","Z">>

IsLower(c) == \E i \in 1..Len(LowerLetters) : LowerLetters[i] = c
IsUpper(c) == \E i \in 1..Len(UpperLetters) : UpperLetters[i] = c

\* char::to_ascii_uppercase / char::to_uppercase on the ASCII range.
ToUpperChar(c) ==
    IF IsLower(c)
    THEN UpperLetters[CHOOSE i \in 1..Len(LowerLetters) : LowerLetters[i] = c]
    ELSE c

\* char::to_lowercase on the ASCII range.
ToLowerChar(c) ==
    IF IsUpper(c)
    THEN LowerLetters[CHOOSE i \in 1..Len(UpperLetters) : UpperLetters[i] = c]
    ELSE c

\* str::to_uppercase
ToUppercase(s) == [i \in 1..Len(s) |-> ToUpperChar(s[i])]
\* str::to_lowercase
ToLowercase(s) == [i \in 1..Len(s) |-> ToLowerChar(s[i])]

\* writeln!(buffer, "{}", text): the text and a line feed are appended.
Writeln(buffer, text) == buffer \o text \o <<NL>>

\* Pieces of s between line feeds, a piece after the last line feed included.
RECURSIVE SplitNL(_)
SplitNL(s) ==
    IF \A i \in 1..Len(s) : s[i] # NL
    THEN <<s>>
    ELSE LET k == CHOOSE i \in 1..Len(s) :
                      s[i] = NL /\ \A j \in 1..(i - 1) : s[j] # NL
         IN <<SubSeq(s, 1, k - 1)>> \o SplitNL(SubSeq(s, k + 1, Len(s)))

StripCR(l) ==
    IF Len(l) > 0 /\ l[Len(l)] = "\r" THEN SubSeq(l, 1, Len(l) - 1) ELSE l

\* str::lines(): split on line feeds, no empty last line for a final line
\* feed, a carriage return before a line feed dropped.
StrLines(s) ==
    LET p == SplitNL(s)
        q == IF p[Len(p)] = <<>> THEN SubSeq(p, 1, Len(p) - 1) ELSE p
    IN [i \in 1..Len(q) |-> StripCR(q[i])]

\* [String]::join(sep)
RECURSIVE Join(_, _)
Join(parts, sep) ==
    IF parts = <<>> THEN <<>>
    ELSE IF Len(parts) = 1 THEN parts[1]
    ELSE parts[1] \o sep \o Join(Tail(parts), sep)

\* ------------------------------------------------------------------ FieldInfo

FieldInfo_new(name) ==
    [name |-> name, doc_comments |-> None, default_value |-> None,
     field_type |-> <<>>, is_nested |-> FALSE, nested_fields |-> <<>>]

FieldInfo_doc(self, doc) == [self EXCEPT !.doc_comments = Some(doc)]

FieldInfo_default(self, default) == [self EXCEPT !.default_value = default]

FieldInfo_field_type(self, field_type) == [self EXCEPT !.field_type = field_type]

FieldInfo_nested_NoFlag(self, nested_fields) ==
    [self EXCEPT !.nested_fields = nested_fields]

FieldInfo_nested(self, nested_fields) ==
    [self EXCEPT !.is_nested = TRUE, !.nested_fields = nested_fields]

\* ------------------------------------------------------------------ ConfigSchemaBuilder

ConfigSchemaBuilder_new == [fields |-> <<>>]

ConfigSchemaBuilder_add_field_Dedup(self, field) ==
    IF \E i \in 1..Len(self.fields) : self.fields[i].name = field.name
    THEN self
    ELSE [self EXCEPT !.fields = Append(@, field)]

ConfigSchemaBuilder_add_field(self, field) ==
    [self EXCEPT !.fields = Append(@, field)]

ConfigSchemaBuilder_build(self) == [fields |-> self.fields]

\* ------------------------------------------------------------------ ConfigFormat

\* The variants of enum ConfigFormat.
ConfigFormat == {"Toml"}

\* A call's outcome: the text so far, and whether the call panicked
\* (unimplemented!), in which case no value is returned to the caller.
Ok(buf) == [panicked |-> FALSE, buf |-> buf]
Panic(buf) == [panicked |-> TRUE, buf |-> buf]

\* ConfigFormat::extension
ConfigFormat_extension(self) ==
    IF self = "Toml" THEN Ok(<<"t","o","m","l">>) ELSE Panic(<<>>)

\* ConfigFormat::format_value on a string: serialized by toml's
\* ValueSerializer as a TOML string, that is, between double quotes. The
\* strings of this model hold no quote, backslash or control character, so no
\* escape sequence arises. The format is not consulted.
ConfigFormat_format_value(self, val) == <<"\"">> \o val \o <<"\"">>

\* ------------------------------------------------------------------ renderer

\* capitalize
capitalize(s) ==
    IF s = <<>> THEN <<>> ELSE <<ToUpperChar(s[1])>> \o Tail(s)

\* for line in doc.lines() { writeln!(buffer, "# {}", line) }
RECURSIVE WriteDocLines(_, _)
WriteDocLines(buffer, lines) ==
    IF lines = <<>> THEN buffer
    ELSE WriteDocLines(Writeln(buffer, <<"#"," ">> \o lines[1]), Tail(lines))

\* The body of the loop over a section's fields for one leaf field.
WriteLeafEntry(buffer, nested_field, format) ==
    LET b1 == IF IsSome(nested_field.doc_comments)
              THEN WriteDocLines(buffer, StrLines(Unwrap(nested_field.doc_comments)))
              ELSE buffer
        b2 == IF IsSome(nested_field.default_value)
              THEN Writeln(b1, <<"#"," ","D","e","f","a","u","l","t",":"," ">>
                               \o Unwrap(nested_field.default_value))
              ELSE b1
        value_str == IF IsSome(nested_field.default_value)
                     THEN ConfigFormat_format_value(format, Unwrap(nested_field.default_value))
                     ELSE <<".",".",".">>
        b3 == Writeln(b2, nested_field.name \o <<" ","="," ">> \o value_str)
    IN Writeln(b3, <<>>)

\* for nested_field in &field.nested_fields { if !nested_field.is_nested { .. } }
RECURSIVE WriteLeafEntries(_, _, _)
WriteLeafEntries(buffer, nested_fields, format) ==
    IF nested_fields = <<>> THEN buffer
    ELSE WriteLeafEntries(
            IF ~nested_fields[1].is_nested
            THEN WriteLeafEntry(buffer, nested_fields[1], format)
            ELSE buffer,
            Tail(nested_fields), format)

RECURSIVE WriteFieldDocs(_, _, _, _, _)
RECURSIVE WriteNestedSections(_, _, _, _, _)

WriteSection_PathInTable(buffer, field, format, depth, path) ==
    LET section_name == capitalize(field.name)
        b1 == Writeln(buffer, <<"#","#"," ">> \o section_name)
        b2 == IF IsSome(field.doc_comments)
              THEN Writeln(Writeln(b1, <<>>), Unwrap(field.doc_comments))
              ELSE b1
        current_path == IF path = <<>>
                        THEN field.name
                        ELSE path \o <<".">> \o field.name
    IN IF format = "Toml"
       THEN LET b3 == Writeln(b2, <<BT,BT,BT,"t","o","m","l">>)
                b4 == Writeln(b3, <<"[">> \o current_path \o <<"]">>)
                b5 == Writeln(b4, <<>>)
                b6 == WriteLeafEntries(b5, field.nested_fields, format)
                b7 == Writeln(b6, <<BT,BT,BT>>)
                b8 == Writeln(b7, <<>>)
            IN WriteNestedSections(b8, field.nested_fields, format, depth + 1,
                                   current_path)
       ELSE Panic(b2)

WriteSection_RecurseInsideBlock(buffer, field, format, depth, path) ==
    LET section_name == capitalize(field.name)
        b1 == Writeln(buffer, <<"#","#"," ">> \o section_name)
        b2 == IF IsSome(field.doc_comments)
              THEN Writeln(Writeln(b1, <<>>), Unwrap(field.doc_comments))
              ELSE b1
        current_path == IF path = <<>>
                        THEN field.name
                        ELSE path \o <<".">> \o field.name
    IN IF format = "Toml"
       THEN LET b3 == Writeln(b2, <<BT,BT,BT,"t","o","m","l">>)
                b4 == Writeln(b3, <<"[">> \o field.name \o <<"]">>)
                b5 == Writeln(b4, <<>>)
                b6 == WriteLeafEntries(b5, field.nested_fields, format)
                r  == WriteNestedSections(b6, field.nested_fields, format,
                                          depth + 1, current_path)
            IN IF r.panicked THEN r
               ELSE Ok(Writeln(Writeln(r.buf, <<BT,BT,BT>>), <<>>))
       ELSE Panic(b2)

\* What write_field_docs does for a field with is_nested set.
WriteSection(buffer, field, format, depth, path) ==
    LET section_name == capitalize(field.name)
        b1 == Writeln(buffer, <<"#","#"," ">> \o section_name)
        b2 == IF IsSome(field.doc_comments)
              THEN Writeln(Writeln(b1, <<>>), Unwrap(field.doc_comments))
              ELSE b1
    IN IF format = "Toml"
       THEN LET b3 == Writeln(b2, <<BT,BT,BT,"t","o","m","l">>)
                b4 == Writeln(b3, <<"[">> \o field.name \o <<"]">>)
                b5 == Writeln(b4, <<>>)
                b6 == WriteLeafEntries(b5, field.nested_fields, format)
                b7 == Writeln(b6, <<BT,BT,BT>>)
                b8 == Writeln(b7, <<>>)
                current_path == IF path = <<>>
                                THEN field.name
                                ELSE path \o <<".">> \o field.name
            IN WriteNestedSections(b8, field.nested_fields, format, depth + 1,
                                   current_path)
       ELSE Panic(b2)

WriteFieldDocs_NoLeafGuard(buffer, field, format, depth, path) ==
    WriteSection(buffer, field, format, depth, path)

\* write_field_docs
WriteFieldDocs(buffer, field, format, depth, path) ==
    IF field.is_nested
    THEN WriteSection(buffer, field, format, depth, path)
    ELSE Ok(buffer)

\* for nested_field in &field.nested_fields { if nested_field.is_nested { .. }? }
WriteNestedSections(buffer, nested_fields, format, depth, path) ==
    IF nested_fields = <<>> THEN Ok(buffer)
    ELSE IF ~nested_fields[1].is_nested
    THEN WriteNestedSections(buffer, Tail(nested_fields), format, depth, path)
    ELSE LET r == WriteFieldDocs(buffer, nested_fields[1], format, depth, path)
         IN IF r.panicked THEN r
            ELSE WriteNestedSections(r.buf, Tail(nested_fields), format, depth, path)

\* for field in fields { write_field_docs(&mut buffer, field, format, 0, "").unwrap() }
RECURSIVE WriteTopLevel(_, _, _)
WriteTopLevel(buffer, fields, format) ==
    IF fields = <<>> THEN Ok(buffer)
    ELSE LET r == WriteFieldDocs(buffer, fields[1], format, 0, <<>>)
         IN IF r.panicked THEN r ELSE WriteTopLevel(r.buf, Tail(fields), format)

Reverse(q) == [i \in 1..Len(q) |-> q[Len(q) + 1 - i]]

MarkdownOptions_new(format) == [title |-> None, format |-> format]
MarkdownOptions_title(self, title) == [self EXCEPT !.title = title]

WriteTitle(options) ==
    IF IsSome(options.title)
    THEN Writeln(Writeln(<<>>, <<"#"," ">> \o Unwrap(options.title)), <<>>)
    ELSE <<>>

GenerateMarkdown_Reversed(fields, options) ==
    WriteTopLevel(WriteTitle(options), Reverse(fields), options.format)

\* generate_markdown
GenerateMarkdown(fields, options) ==
    WriteTopLevel(WriteTitle(options), fields, options.format)

\* ConfigSchema::generate_docs_with_options
ConfigSchema_generate_docs_with_options(self, options) ==
    GenerateMarkdown(self.fields, options)

\* ------------------------------------------------------------------ idle components

IdleFI == fi = None /\ fiOp = None /\ fiNestedCalled = FALSE /\ fiCalls = 0
IdleB == bFields = None /\ bAdded = <<>> /\ bSchema = None
IdleR ==
    /\ rFields = <<>> /\ rOptions = None /\ rOut = None
    /\ wField = None /\ wCalls = <<>>
IdleD == dType = None /\ dIdx = 0 /\ dBuilder = None /\ dSchema = None /\ dDocs = None
IdleN == nIdent = <<>> /\ nStyle = None /\ nOut = None
IdleE ==
    /\ eType = None /\ eEnv = None /\ ePc = "idle" /\ eFormat = None
    /\ eFileName = None /\ eDocs = None /\ eFs = None /\ eFs0 = None

\* ------------------------------------------------------------------ FieldInfo setters

\* Inputs of the setters.
FINames == {<<"a">>, <<"b","c">>}
FIDocs == {<<"x">>, <<"x",NL,"y">>}
FIDefaults == {None, Some(<<"1">>)}
FITypes == {<<"b","o","o","l">>}
FIChildren ==
    {<<>>,
     <<FieldInfo_new(<<"a">>)>>,
     <<FieldInfo_nested(FieldInfo_new(<<"s">>), <<FieldInfo_new(<<"a">>)>>)>>}

\* fiOp: the last call and the descriptor it was applied to.
Call(op, before) == Some([op |-> op, before |-> before])

InitFI ==
    /\ fi \in {Some(FieldInfo_new(n)) : n \in FINames}
    /\ fiOp = Call("new", None)
    /\ fiNestedCalled = FALSE
    /\ fiCalls = 0
    /\ IdleB /\ IdleR /\ IdleD /\ IdleN /\ IdleE

FI_doc ==
    /\ fiCalls < MaxSetterCalls
    /\ \E d \in FIDocs : fi' = Some(FieldInfo_doc(Unwrap(fi), d))
    /\ fiOp' = Call("doc", fi)
    /\ fiCalls' = fiCalls + 1
    /\ UNCHANGED <<fiNestedCalled, varsB, varsR, varsD, varsN, varsE>>

FI_default ==
    /\ fiCalls < MaxSetterCalls
    /\ \E d \in FIDefaults : fi' = Some(FieldInfo_default(Unwrap(fi), d))
    /\ fiOp' = Call("default", fi)
    /\ fiCalls' = fiCalls + 1
    /\ UNCHANGED <<fiNestedCalled, varsB, varsR, varsD, varsN, varsE>>

FI_field_type ==
    /\ fiCalls < MaxSetterCalls
    /\ \E t \in FITypes : fi' = Some(FieldInfo_field_type(Unwrap(fi), t))
    /\ fiOp' = Call("field_type", fi)
    /\ fiCalls' = fiCalls + 1
    /\ UNCHANGED <<fiNestedCalled, varsB, varsR, varsD, varsN, varsE>>

FI_nested ==
    /\ fiCalls < MaxSetterCalls
    /\ \E ch \in FIChildren : fi' = Some(FieldInfo_nested(Unwrap(fi), ch))
    /\ fiOp' = Call("nested", fi)
    /\ fiNestedCalled' = TRUE
    /\ fiCalls' = fiCalls + 1
    /\ UNCHANGED <<varsB, varsR, varsD, varsN, varsE>>

NextFI == FI_doc \/ FI_default \/ FI_field_type \/ FI_nested

SpecFieldInfo == InitFI /\ [][NextFI]_vars

\* ------------------------------------------------------------------ builder steps

\* Descriptors handed to add_field; D1 and D2 share a name.
D1 ==
    FieldInfo_field_type(
        FieldInfo_default(FieldInfo_new(<<"a">>), Some(<<"1">>)), <<"b","o","o","l">>)
D2 == FieldInfo_new(<<"a">>)
D3 == FieldInfo_nested(FieldInfo_new(<<"s">>), <<D1>>)
D4 == FieldInfo_doc(FieldInfo_new(<<"b">>), <<"x">>)
Descriptors == {D1, D2, D3, D4}

InitB ==
    /\ bFields = Some(ConfigSchemaBuilder_new)
    /\ bAdded = <<>>
    /\ bSchema = None
    /\ IdleFI /\ IdleR /\ IdleD /\ IdleN /\ IdleE

\* builder.add_field(f); the builder is moved into build(), so no call follows it.
B_add_field ==
    /\ IsSome(bFields)
    /\ Len(bAdded) < MaxAddField
    /\ \E f \in Descriptors :
        /\ bFields' = Some(ConfigSchemaBuilder_add_field(Unwrap(bFields), f))
        /\ bAdded' = Append(bAdded, f)
    /\ UNCHANGED <<bSchema, varsFI, varsR, varsD, varsN, varsE>>

B_build ==
    /\ IsSome(bFields)
    /\ bSchema' = Some(ConfigSchemaBuilder_build(Unwrap(bFields)))
    /\ bFields' = None
    /\ UNCHANGED <<bAdded, varsFI, varsR, varsD, varsN, varsE>>

NextB == B_add_field \/ B_build

SpecBuilder == InitB /\ [][NextB]_vars

\* ------------------------------------------------------------------ claims: schema model

\* C9: after new(), any add_field calls and build(), the schema's fields are
\* exactly the descriptors passed to add_field, in call order, duplicates of a
\* name included.
C9_BuildKeepsAddedFields ==
    IsSome(bSchema) => Unwrap(bSchema).fields = bAdded

C9_Witness ==
    /\ IsSome(bSchema)
    /\ bAdded = <<D1, D3, D2>>
    /\ Unwrap(bSchema).fields = <<D1, D3, D2>>

\* C10: is_nested holds exactly when nested has been called; a descriptor that
\* is not nested has no nested_fields; doc, default and field_type leave
\* is_nested and nested_fields as they were.
C10_NestedOnlyByNested ==
    IsSome(fi) =>
        LET f == Unwrap(fi)
            c == Unwrap(fiOp)
        IN /\ f.is_nested <=> fiNestedCalled
           /\ ~f.is_nested => f.nested_fields = <<>>
           /\ c.op \in {"doc", "default", "field_type"} =>
                /\ f.is_nested = Unwrap(c.before).is_nested
                /\ f.nested_fields = Unwrap(c.before).nested_fields

C10_Witness ==
    /\ IsSome(fi)
    /\ Unwrap(fiOp).op = "default"
    /\ Unwrap(fi).is_nested
    /\ Unwrap(fi).nested_fields # <<>>
    /\ IsSome(Unwrap(fi).doc_comments)

\* ------------------------------------------------------------------ rendering a schema

\* Leaf descriptors of the rendered schemas.
Leaf1 ==
    FieldInfo_field_type(
        FieldInfo_default(FieldInfo_doc(FieldInfo_new(<<"a">>), <<"x",NL,"y">>),
                          Some(<<"1">>)),
        <<"i","3","2">>)
Leaf2 == FieldInfo_field_type(FieldInfo_new(<<"b">>), <<"S","t","r","i","n","g">>)
Leaf3 ==
    FieldInfo_field_type(
        FieldInfo_default(FieldInfo_new(<<"c">>), Some(<<"t","r","u","e">>)),
        <<"b","o","o","l">>)
Leaves == {Leaf1, Leaf2, Leaf3}

\* Section descriptors of the rendered schemas, over the given children.
SectionS(children) == FieldInfo_nested(FieldInfo_new(<<"s">>), children)
SectionT(children) ==
    FieldInfo_nested(FieldInfo_doc(FieldInfo_new(<<"t">>), <<"d">>), children)

\* The sequences of descriptors that hold n descriptors in all.
RECURSIVE ForestsOf(_)
TreesOf(n) ==
    (IF n = 1 THEN Leaves ELSE {})
    \cup {SectionS(ch) : ch \in ForestsOf(n - 1)}
    \cup {SectionT(ch) : ch \in ForestsOf(n - 1)}
ForestsOf(n) ==
    IF n = 0 THEN {<<>>}
    ELSE UNION {{<<t>> \o f : t \in TreesOf(k), f \in ForestsOf(n - k)} : k \in 1..n}

Schemas == UNION {ForestsOf(n) : n \in 0..MaxNodes}
Titles == {None, Some(<<"T">>)}

InitR ==
    /\ rFields \in Schemas
    /\ rOptions \in {Some(MarkdownOptions_title(MarkdownOptions_new(f), t)) :
                        f \in ConfigFormat, t \in Titles}
    /\ rOut = None
    /\ wField = None /\ wCalls = <<>>
    /\ IdleFI /\ IdleB /\ IdleD /\ IdleN /\ IdleE

\* schema.generate_docs_with_options(&options)
R_generate_docs ==
    /\ rOut = None
    /\ rOut' = Some(ConfigSchema_generate_docs_with_options(
                        [fields |-> rFields], Unwrap(rOptions)))
    /\ UNCHANGED <<rFields, rOptions, wField, wCalls, varsFI, varsB, varsD, varsN, varsE>>

NextR == R_generate_docs

SpecRender == InitR /\ [][NextR]_vars

\* ------------------------------------------------------------------ claims: rendering

\* The lines of a rendered document, each written with its line feed.
DocLines(text) ==
    LET p == SplitNL(text) IN SubSeq(p, 1, Len(p) - 1)

RECURSIVE Concat(_)
Concat(qs) == IF qs = <<>> THEN <<>> ELSE qs[1] \o Concat(Tail(qs))

\* The sections of a schema that rendering reaches: a section, then the
\* sections among its fields.
RECURSIVE SectionsOf(_)
SectionsOf(fields) ==
    Concat([i \in 1..Len(fields) |->
               IF fields[i].is_nested
               THEN <<fields[i]>> \o SectionsOf(fields[i].nested_fields)
               ELSE <<>>])

IsHeader(line) == Len(line) >= 3 /\ SubSeq(line, 1, 3) = <<"#","#"," ">>
HeaderOf(field) == <<"#","#"," ">> \o capitalize(field.name)
OpenFence == <<BT,BT,BT,"t","o","m","l">>
CloseFence == <<BT,BT,BT>>
Rendered == IsSome(rOut) /\ ~Unwrap(rOut).panicked
RenderedLines == DocLines(Unwrap(rOut).buf)

\* C1: for every rendered section and every leaf field of it with a default d,
\* the document holds the line "# Default: <d>" immediately followed by the
\* line "<name> = <d>", d unchanged.
C1_DefaultPassthrough ==
    Rendered =>
        \A s \in {SectionsOf(rFields)[i] : i \in 1..Len(SectionsOf(rFields))} :
            \A j \in 1..Len(s.nested_fields) :
                LET c == s.nested_fields[j] IN
                (~c.is_nested /\ IsSome(c.default_value)) =>
                    \E i \in 1..(Len(RenderedLines) - 1) :
                        /\ RenderedLines[i] =
                             <<"#"," ","D","e","f","a","u","l","t",":"," ">>
                             \o Unwrap(c.default_value)
                        /\ RenderedLines[i + 1] =
                             c.name \o <<" ","="," ">> \o Unwrap(c.default_value)

\* C6: the headers of the top-level sections appear in the document in the
\* order of schema.fields: the header of a top-level section is the header
\* line that follows those of the top-level fields before it and of their
\* sections, and a leaf field contributes no header line.
C6_TopLevelHeaderOrder ==
    Rendered =>
        LET H == SelectSeq(RenderedLines, IsHeader)
            Before(k) == Len(SectionsOf(SubSeq(rFields, 1, k - 1)))
        IN /\ Len(H) = Len(SectionsOf(rFields))
           /\ \A k \in 1..Len(rFields) :
                rFields[k].is_nested => H[Before(k) + 1] = HeaderOf(rFields[k])

C6_Witness ==
    /\ Rendered
    /\ Len(rFields) = 4
    /\ rFields[1].is_nested /\ rFields[1].name = <<"t">>
    /\ ~rFields[2].is_nested
    /\ rFields[3].is_nested /\ rFields[3].name = <<"s">>
    /\ ~rFields[4].is_nested
    /\ SelectSeq(RenderedLines, IsHeader) = <<<<"#","#"," ","T">>, <<"#","#"," ","S">>>>

\* C7: a schema whose top-level fields are all leaves renders to the empty
\* text without a title, and to the title header and one empty line with one.
C7_LeafSuppression ==
    (Rendered /\ \A k \in 1..Len(rFields) : ~rFields[k].is_nested) =>
        Unwrap(rOut).buf =
            IF IsSome(Unwrap(rOptions).title)
            THEN <<"#"," ">> \o Unwrap(Unwrap(rOptions).title) \o <<NL, NL>>
            ELSE <<>>

C7_Witness ==
    /\ Rendered
    /\ rFields = <<Leaf1, Leaf2, Leaf3>>
    /\ Unwrap(rOptions).title = Some(<<"T">>)
    /\ Unwrap(rOut).buf = <<"#"," ","T",NL,NL>>

IsBlockEvent(line) == IsHeader(line) \/ line = OpenFence \/ line = CloseFence

\* C12: rendering visits the sections reachable through section ancestors
\* once each, in depth-first pre-order; each contributes one header, then one
\* opening fence, then its closing fence, before the header of the next
\* section (a child section included), so no block is left open or nested.
C12_PreOrderClosedBlocks ==
    Rendered =>
        LET sections == SectionsOf(rFields)
        IN SelectSeq(RenderedLines, IsBlockEvent) =
             Concat([k \in 1..Len(sections) |->
                        <<HeaderOf(sections[k]), OpenFence, CloseFence>>])

C12_Witness ==
    /\ Rendered
    /\ rFields = <<SectionS(<<SectionT(<<Leaf3>>)>>), SectionT(<<>>)>>
    /\ SelectSeq(RenderedLines, IsBlockEvent) =
         << <<"#","#"," ","S">>, OpenFence, CloseFence,
            <<"#","#"," ","T">>, OpenFence, CloseFence,
            <<"#","#"," ","T">>, OpenFence, CloseFence >>

\* ------------------------------------------------------------------ calling the field writer

\* Sections handed to write_field_docs, and the path arguments.
WriterSections ==
    {t \in UNION {TreesOf(n) : n \in 1..(MaxNodes - 1)} : t.is_nested}
WriterPaths == {<<>>, <<"p">>, <<"p",".","q">>}

InitW ==
    /\ wField \in {Some(t) : t \in WriterSections}
    /\ wCalls = <<>>
    /\ rFields = <<>> /\ rOptions = None /\ rOut = None
    /\ IdleFI /\ IdleB /\ IdleD /\ IdleN /\ IdleE

\* The record of write_field_docs(&mut buffer, field, &Toml, depth, path) on
\* an empty buffer.
WriterCall(field, depth, path) ==
    [depth |-> depth, path |-> path,
     out |-> WriteFieldDocs(<<>>, field, "Toml", depth, path)]

\* A first call of write_field_docs on the descriptor.
W_first_call ==
    /\ IsSome(wField)
    /\ wCalls = <<>>
    /\ \E depth \in 0..MaxDepthArg, path \in WriterPaths :
        wCalls' = <<WriterCall(Unwrap(wField), depth, path)>>
    /\ UNCHANGED <<wField, rFields, rOptions, rOut, varsFI, varsB, varsD, varsN, varsE>>

\* A second call on the same descriptor.
W_second_call ==
    /\ IsSome(wField)
    /\ Len(wCalls) = 1
    /\ \E depth \in 0..MaxDepthArg, path \in WriterPaths :
        wCalls' = Append(wCalls, WriterCall(Unwrap(wField), depth, path))
    /\ UNCHANGED <<wField, rFields, rOptions, rOut, varsFI, varsB, varsD, varsN, varsE>>

NextW == W_first_call \/ W_second_call

SpecFieldWriter == InitW /\ [][NextW]_vars

\* ------------------------------------------------------------------ claims: the field writer

IsTableLine(line) == Len(line) >= 1 /\ line[1] = "["
TableLineOf(field) == <<"[">> \o field.name \o <<"]">>

\* C11: the text write_field_docs emits for a section is the same whatever
\* depth and path it is called with; its first line is the header "## <Name>",
\* and the table lines of the section and of the sections under it are
\* "[<name>]" with the section's own name only.
C11_DepthPathIndependent ==
    IsSome(wField) =>
        /\ \A i, j \in 1..Len(wCalls) : wCalls[i].out = wCalls[j].out
        /\ \A i \in 1..Len(wCalls) :
            LET lines == DocLines(wCalls[i].out.buf)
                sections == SectionsOf(<<Unwrap(wField)>>)
            IN /\ ~wCalls[i].out.panicked
               /\ lines[1] = HeaderOf(Unwrap(wField))
               /\ SelectSeq(lines, IsTableLine) =
                    [k \in 1..Len(sections) |-> TableLineOf(sections[k])]

C11_Witness ==
    /\ wField = Some(SectionS(<<SectionT(<<Leaf1>>)>>))
    /\ Len(wCalls) = 2
    /\ wCalls[1].depth = 0 /\ wCalls[1].path = <<>>
    /\ wCalls[2].depth = 1 /\ wCalls[2].path = <<"p",".","q">>
    /\ wCalls[1].out = wCalls[2].out
    /\ SelectSeq(DocLines(wCalls[2].out.buf), IsTableLine) =
         <<<<"[","s","]">>, <<"[","t","]">>>>

\* ------------------------------------------------------------------ naming transforms

CamelCase == <<"c","a","m","e","l","C","a","s","e">>
PascalCase == <<"P","a","s","c","a","l","C","a","s","e">>
SnakeCase == <<"s","n","a","k","e","_","c","a","s","e">>
ScreamingSnakeCase ==
    <<"S","C","R","E","A","M","I","N","G","_","S","N","A","K","E","_","C","A","S","E">>
KebabCase == <<"k","e","b","a","b","-","c","a","s","e">>

\* The loop of to_camel_case and to_pascal_case over the characters left.
RECURSIVE CaseLoop(_, _, _)
CaseLoop(s, result, capitalize_next) ==
    IF s = <<>> THEN result
    ELSE IF s[1] = "_" THEN CaseLoop(Tail(s), result, TRUE)
    ELSE IF capitalize_next
    THEN CaseLoop(Tail(s), Append(result, ToUpperChar(s[1])), FALSE)
    ELSE CaseLoop(Tail(s), Append(result, s[1]), capitalize_next)

to_camel_case_FirstUpper(s) == CaseLoop(s, <<>>, TRUE)

\* to_camel_case
to_camel_case(s) == CaseLoop(s, <<>>, FALSE)

\* to_pascal_case
to_pascal_case(s) == CaseLoop(s, <<>>, TRUE)

\* str::replace(from, to) for a one-character pattern.
RECURSIVE Replace(_, _, _)
Replace(s, from, to) ==
    IF s = <<>> THEN <<>>
    ELSE (IF s[1] = from THEN to ELSE <<s[1]>>) \o Replace(Tail(s), from, to)

\* apply_rename_all
apply_rename_all(field_name, rename_all) ==
    IF IsSome(rename_all)
    THEN LET style == Unwrap(rename_all) IN
         CASE style = CamelCase -> to_camel_case(field_name)
           [] style = PascalCase -> to_pascal_case(field_name)
           [] style = SnakeCase -> field_name
           [] style = ScreamingSnakeCase -> ToUppercase(field_name)
           [] style = KebabCase -> Replace(field_name, "_", <<"-">>)
           [] OTHER -> field_name
    ELSE field_name

\* Identifiers handed to the transforms, and the rename_all values: none, the
\* five styles the code knows, and one it does not.
IdentChars == {"a", "b", "_"}
Idents == UNION {[1..n -> IdentChars] : n \in 0..MaxIdLen}
Lowercase == <<"l","o","w","e","r","c","a","s","e">>
Styles == {CamelCase, PascalCase, SnakeCase, ScreamingSnakeCase, KebabCase, Lowercase}
StyleOptions == {None} \cup {Some(st) : st \in Styles}

InitN ==
    /\ nIdent \in Idents
    /\ nStyle \in StyleOptions
    /\ nOut = None
    /\ IdleFI /\ IdleB /\ IdleR /\ IdleD /\ IdleE

\* apply_rename_all(&field_name_str, rename_all)
N_apply_rename_all ==
    /\ nOut = None
    /\ nOut' = Some(apply_rename_all(nIdent, nStyle))
    /\ UNCHANGED <<nIdent, nStyle, varsFI, varsB, varsR, varsD, varsE>>

NextN == N_apply_rename_all

SpecNaming == InitN /\ [][NextN]_vars

\* ------------------------------------------------------------------ claims: naming

\* The inverse transform of the round trip: an underscore before each
\* uppercase letter, the letter lowercased.
Uncamel(t) ==
    Concat([i \in 1..Len(t) |->
               IF IsUpper(t[i]) THEN <<"_", ToLowerChar(t[i])>> ELSE <<t[i]>>])

\* Lowercase letters and underscores, no underscore first or last, no two
\* underscores in a row.
WellFormedSnake(s) ==
    /\ \A i \in 1..Len(s) : IsLower(s[i]) \/ s[i] = "_"
    /\ Len(s) > 0 => (s[1] # "_" /\ s[Len(s)] # "_")
    /\ \A i \in 1..(Len(s) - 1) : ~(s[i] = "_" /\ s[i + 1] = "_")

\* C8: for a well-formed snake-case identifier s, to_camel_case followed by
\* the underscore-inserting inverse returns s.
C8_CamelRoundTrip ==
    (nStyle = Some(CamelCase) /\ IsSome(nOut) /\ WellFormedSnake(nIdent)) =>
        Uncamel(Unwrap(nOut)) = nIdent

C8_Witness ==
    /\ nStyle = Some(CamelCase)
    /\ nIdent = <<"a","_","b","a">>
    /\ nOut = Some(<<"a","B","a">>)

\* ------------------------------------------------------------------ derive: attributes

\* An attribute: #[doc = "..."] (a doc comment line), #[serde(...)] or
\* #[config_docs(...)] with its nested items; an item is a path or name = "..."
DocAttr(text) == [path |-> "doc", lit |-> Some(text), nested |-> <<>>]
ListAttr(path, items) == [path |-> path, lit |-> None, nested |-> items]
NameValue(name, text) == [name |-> name, lit |-> Some(text)]
PathItem(name) == [name |-> name, lit |-> None]

\* extract_doc_comment
extract_doc_comment(attrs) ==
    LET IsDoc(a) == a.path = "doc" /\ IsSome(a.lit)
        docs == SelectSeq(attrs, IsDoc)
        doc_lines == [i \in 1..Len(docs) |-> Unwrap(docs[i].lit)]
    IN IF doc_lines = <<>> THEN None ELSE Some(Join(doc_lines, <<NL>>))

\* The first name = "..." item of a nested list with the given name.
RECURSIVE FirstNameValue(_, _)
FirstNameValue(nested, name) ==
    IF nested = <<>> THEN None
    ELSE IF nested[1].name = name /\ IsSome(nested[1].lit) THEN nested[1].lit
    ELSE FirstNameValue(Tail(nested), name)

\* The loop shared by extract_default_fn, extract_rename and extract_rename_all.
RECURSIVE ExtractSerde(_, _)
ExtractSerde(attrs, name) ==
    IF attrs = <<>> THEN None
    ELSE IF attrs[1].path = "serde" /\ IsSome(FirstNameValue(attrs[1].nested, name))
    THEN FirstNameValue(attrs[1].nested, name)
    ELSE ExtractSerde(Tail(attrs), name)

extract_default_fn(attrs) == ExtractSerde(attrs, "default")
extract_rename(attrs) == ExtractSerde(attrs, "rename")
extract_rename_all(attrs) == ExtractSerde(attrs, "rename_all")

\* should_export in derive_config_docs
should_export(attrs) ==
    \E i \in 1..Len(attrs) :
        /\ attrs[i].path = "config_docs"
        /\ \E j \in 1..Len(attrs[i].nested) :
            attrs[i].nested[j].name = "export" /\ attrs[i].nested[j].lit = None

\* ------------------------------------------------------------------ derive: types

PrimitiveTypes ==
    {<<"b","o","o","l">>,
     <<"i","8">>,
     <<"i","1","6">>,
     <<"i","3","2">>,
     <<"i","6","4">>,
     <<"i","1","2","8">>,
     <<"i","s","i","z","e">>,
     <<"u","8">>,
     <<"u","1","6">>,
     <<"u","3","2">>,
     <<"u","6","4">>,
     <<"u","1","2","8">>,
     <<"u","s","i","z","e">>,
     <<"f","3","2">>,
     <<"f","6","4">>,
     <<"c","h","a","r">>,
     <<"s","t","r">>,
     <<"S","t","r","i","n","g">>}

\* A field's type is a path of one segment, named by that segment.
is_nested_type(ty) == ty \notin PrimitiveTypes
get_field_type_str(ty) == ty
get_type_name(ty) == ty

\* The default functions of the crate deriving the schema.
FnFalse == <<"_","f","a","l","s","e">>
FnTrue == <<"_","t","r","u","e">>
CallDefaultFn(path) == IF path = FnTrue THEN TRUE ELSE FALSE

\* format!("{:?}", default_value) for a bool
DebugFmt(value) ==
    IF value THEN <<"t","r","u","e">> ELSE <<"f","a","l","s","e">>

\* ------------------------------------------------------------------ derive: the demo crate

DemoDoc1 ==
    <<" ","B","y"," ","d","e","f","a","u","l","t",","," ","S","t","r","e",
      "a","m","l","i","t"," ","d","i","s","p","l","a","y","s"," ","a"," ",
      "w","a","r","n","i","n","g"," ","w","h","e","n"," ","a"," ","u","s",
      "e","r"," ","s","e","t","s"," ","b","o","t","h"," ","a"," ","w","i",
      "d","g","e","t">>
DemoDoc2 ==
    <<" ","d","e","f","a","u","l","t"," ","v","a","l","u","e"," ","i","n",
      " ","t","h","e"," ","f","u","n","c","t","i","o","n"," ","d","e","f",
      "i","n","i","n","g"," ","t","h","e"," ","w","i","d","g","e","t"," ",
      "a","n","d"," ","a"," ","w","i","d","g","e","t"," ","v","a","l","u",
      "e"," ","v","i","a">>
DemoDoc3 ==
    <<" ","t","h","e"," ","w","i","d","g","e","t","'","s"," ","k","e","y",
      " ","i","n"," ",BT,"s","t",".","s","e","s","s","i","o","n","_","s",
      "t","a","t","e",BT,".">>
DemoDoc4 ==
    <<" ","I","f"," ","y","o","u","'","d"," ","l","i","k","e"," ","t","o",
      " ","t","u","r","n"," ","o","f","f"," ","t","h","i","s"," ","w","a",
      "r","n","i","n","g",","," ","s","e","t"," ","t","h","i","s"," ","t",
      "o"," ","T","r","u","e",".">>
DemoDoc5 ==
    <<" ","I","f"," ","T","r","u","e",","," ","w","i","l","l"," ","s","h",
      "o","w"," ","a"," ","w","a","r","n","i","n","g"," ","w","h","e","n",
      " ","y","o","u"," ","r","u","n"," ","a"," ","S","t","r","e","a","m",
      "l","i","t","-","e","n","a","b","l","e","d"," ","s","c","r","i","p",
      "t">>
DemoDoc6 ==
    <<" ","v","i","a"," ","\"","p","y","t","h","o","n"," ","m","y","_",
      "s","c","r","i","p","t",".","p","y","\"",".">>

StructDef(ident, attrs, fields) == [ident |-> ident, attrs |-> attrs, fields |-> fields]
FieldDecl(ident, attrs, ty) == [ident |-> ident, attrs |-> attrs, ty |-> ty]

TyBool == <<"b","o","o","l">>
TyConfig == <<"C","o","n","f","i","g">>
TyGlobal == <<"G","l","o","b","a","l">>
TyInner == <<"I","n","n","e","r">>

DemoName1 ==
    <<"d","i","s","a","b","l","e","W","i","d","g","e","t","S","t","a","t","e",
      "D","u","p","l","i","c","a","t","i","o","n","W","a","r","n","i","n","g">>
DemoName2 ==
    <<"s","h","o","w","W","a","r","n","i","n","g","O","n","D","i","r","e","c",
      "t","E","x","e","c","u","t","i","o","n">>

GlobalDef ==
    StructDef(TyGlobal, <<>>,
        <<FieldDecl(
            <<"d","i","s","a","b","l","e","_","w","i","d","g","e","t","_","s","t",
              "a","t","e","_","d","u","p","l","i","c","a","t","i","o","n","_","w",
              "a","r","n","i","n","g">>,
            <<DocAttr(DemoDoc1), DocAttr(DemoDoc2), DocAttr(DemoDoc3), DocAttr(DemoDoc4),
              ListAttr("serde", <<NameValue("default", FnFalse),
                                  NameValue("rename", DemoName1)>>)>>,
            TyBool),
          FieldDecl(
            <<"s","h","o","w","_","w","a","r","n","i","n","g","_","o","n","_","d",
              "i","r","e","c","t","_","e","x","e","c","u","t","i","o","n">>,
            <<DocAttr(DemoDoc5), DocAttr(DemoDoc6),
              ListAttr("serde", <<NameValue("default", FnTrue),
                                  NameValue("rename", DemoName2)>>)>>,
            TyBool)>>)

ConfigDef ==
    StructDef(TyConfig, <<ListAttr("config_docs", <<PathItem("export")>>)>>,
        <<FieldDecl(<<"g","l","o","b","a","l">>, <<>>, TyGlobal)>>)

\* A further section type for the generated definitions.
InnerDef ==
    StructDef(TyInner, <<ListAttr("serde", <<NameValue("rename_all", KebabCase)>>)>>,
        <<FieldDecl(<<"v","_","w">>,
            <<DocAttr(<<" ","i">>), ListAttr("serde", <<NameValue("default", FnTrue)>>)>>,
            TyBool)>>)

\* The definition a section field's type names.
StructOf(ty) ==
    CASE ty = TyGlobal -> GlobalDef
      [] ty = TyInner -> InnerDef
      [] OTHER -> ConfigDef

\* ------------------------------------------------------------------ derive: process_fields

final_name_StyleOnRename(rename, field_name_str, rename_all) ==
    IF IsSome(rename)
    THEN apply_rename_all(Unwrap(rename), rename_all)
    ELSE apply_rename_all(field_name_str, rename_all)

\* let final_name = match rename { .. }
final_name(rename, field_name_str, rename_all) ==
    IF IsSome(rename) THEN Unwrap(rename)
    ELSE apply_rename_all(field_name_str, rename_all)

\* let default_value_expr = match default_fn { .. }, as evaluated by schema()
default_value_expr(default_fn) ==
    IF IsSome(default_fn)
    THEN Some(DebugFmt(CallDefaultFn(Unwrap(default_fn))))
    ELSE None

RECURSIVE Schema(_)

\* The descriptor that the tokens process_fields emits for one field build.
\* The doc comment is extracted and not used: .doc(..) is commented out.
ProcessField(field, rename_all) ==
    LET field_name_str == field.ident
        doc_comment == extract_doc_comment(field.attrs)
        rename == extract_rename(field.attrs)
        default_fn == extract_default_fn(field.attrs)
        name == final_name(rename, field_name_str, rename_all)
        field_type_str == get_field_type_str(field.ty)
    IN IF is_nested_type(field.ty)
       THEN FieldInfo_nested(
                FieldInfo_field_type(FieldInfo_new(name), field_type_str),
                Schema(StructOf(get_type_name(field.ty))).fields)
       ELSE FieldInfo_field_type(
                FieldInfo_default(FieldInfo_new(name), default_value_expr(default_fn)),
                field_type_str)

RECURSIVE AddFields(_, _, _)
AddFields(builder, fields, rename_all) ==
    IF fields = <<>> THEN builder
    ELSE AddFields(
            ConfigSchemaBuilder_add_field(builder, ProcessField(fields[1], rename_all)),
            Tail(fields), rename_all)

\* The derived ConfigDocsStruct::schema() of a definition.
Schema(def) ==
    ConfigSchemaBuilder_build(
        AddFields(ConfigSchemaBuilder_new, def.fields, extract_rename_all(def.attrs)))

\* generate_config_docs_with_options::<T>
generate_config_docs_with_options(schema, options) ==
    ConfigSchema_generate_docs_with_options(schema, options)

\* ------------------------------------------------------------------ derive: steps

\* Field declarations of the generated definitions.
Decl1 == FieldDecl(<<"a","_","b">>, <<>>, <<"S","t","r","i","n","g">>)
Decl2 ==
    FieldDecl(<<"a","_","b">>,
        <<DocAttr(<<" ","x">>), DocAttr(<<" ","y">>),
          ListAttr("serde", <<NameValue("rename", <<"x","_","y">>),
                              NameValue("default", FnTrue)>>)>>,
        TyBool)
Decl3 ==
    FieldDecl(<<"c">>,
        <<DocAttr(<<" ","z">>), ListAttr("serde", <<NameValue("default", FnFalse)>>)>>,
        TyBool)
Decl4 == FieldDecl(<<"i","n","_","r">>, <<DocAttr(<<" ","n">>)>>, TyInner)
Decl5 ==
    FieldDecl(<<"g">>, <<ListAttr("serde", <<NameValue("rename", <<"g","_","h">>)>>)>>,
        TyGlobal)
Decls == {Decl1, Decl2, Decl3, Decl4, Decl5}

StyleAttrs(style) ==
    IF IsSome(style)
    THEN <<ListAttr("serde", <<NameValue("rename_all", Unwrap(style))>>)>>
    ELSE <<>>

GeneratedDefs ==
    {StructDef(<<"S">>, StyleAttrs(st), fs) :
        st \in StyleOptions,
        fs \in UNION {[1..n -> Decls] : n \in 0..MaxDeclFields}}

DeriveTargets == {ConfigDef, GlobalDef, InnerDef} \cup GeneratedDefs

InitD ==
    /\ dType \in {Some(d) : d \in DeriveTargets}
    /\ dIdx = 0
    /\ dBuilder = Some(ConfigSchemaBuilder_new)
    /\ dSchema = None
    /\ dDocs = None
    /\ IdleFI /\ IdleB /\ IdleR /\ IdleN /\ IdleE

\* One .add_field(..) of the derived schema(): the next declared field.
D_process_field ==
    /\ IsSome(dBuilder)
    /\ dIdx < Len(Unwrap(dType).fields)
    /\ dBuilder' = Some(ConfigSchemaBuilder_add_field(
                            Unwrap(dBuilder),
                            ProcessField(Unwrap(dType).fields[dIdx + 1],
                                         extract_rename_all(Unwrap(dType).attrs))))
    /\ dIdx' = dIdx + 1
    /\ UNCHANGED <<dType, dSchema, dDocs, varsFI, varsB, varsR, varsN, varsE>>

\* The .build() that ends the derived schema().
D_build ==
    /\ IsSome(dBuilder)
    /\ dIdx = Len(Unwrap(dType).fields)
    /\ dSchema' = Some(ConfigSchemaBuilder_build(Unwrap(dBuilder)))
    /\ dBuilder' = None
    /\ UNCHANGED <<dType, dIdx, dDocs, varsFI, varsB, varsR, varsN, varsE>>

\* generate_config_docs_with_options::<T>(&MarkdownOptions::new(Toml))
D_generate_config_docs ==
    /\ IsSome(dSchema)
    /\ dDocs = None
    /\ dDocs' = Some(generate_config_docs_with_options(
                         Unwrap(dSchema), MarkdownOptions_new("Toml")))
    /\ UNCHANGED <<dType, dIdx, dBuilder, dSchema, varsFI, varsB, varsR, varsN, varsE>>

NextD == D_process_field \/ D_build \/ D_generate_config_docs

SpecDerive == InitD /\ [][NextD]_vars

\* ------------------------------------------------------------------ claims: derive

RECURSIVE IsSubseq(_, _)
IsSubseq(a, b) ==
    IF a = <<>> THEN TRUE
    ELSE IF b = <<>> THEN FALSE
    ELSE IF a[1] = b[1] THEN IsSubseq(Tail(a), Tail(b))
    ELSE IsSubseq(a, Tail(b))

Range(q) == {q[i] : i \in 1..Len(q)}

\* The fields the derived schema() has added so far.
Derived == IF IsSome(dBuilder) THEN Unwrap(dBuilder).fields ELSE Unwrap(dSchema).fields
DerivedType == Unwrap(dType)

DefaultLine(d) == <<"#"," ","D","e","f","a","u","l","t",":"," ">> \o d
ValueLine(name, d) == name \o <<" ","="," ">> \o d

\* C2: the demo Config, derived and rendered with Toml, yields in this order
\* the header "## Global", the opening toml fence, "[global]", a
\* default-comment line and the value line "... = false" for the first renamed
\* field, the same with true for the second, and the closing fence.
C2_DemoScenario ==
    (DerivedType = ConfigDef /\ IsSome(dDocs)) =>
        /\ ~Unwrap(dDocs).panicked
        /\ IsSubseq(
            <<<<"#","#"," ","G","l","o","b","a","l">>,
              <<BT,BT,BT,"t","o","m","l">>,
              <<"[","g","l","o","b","a","l","]">>,
              DefaultLine(<<"f","a","l","s","e">>),
              ValueLine(DemoName1, <<"f","a","l","s","e">>),
              DefaultLine(<<"t","r","u","e">>),
              ValueLine(DemoName2, <<"t","r","u","e">>),
              <<BT,BT,BT>>>>,
            DocLines(Unwrap(dDocs).buf))

\* The doc comment lines of a field declaration, in order.
DocCommentLines(field) ==
    LET IsDoc(a) == a.path = "doc"
        docs == SelectSeq(field.attrs, IsDoc)
    IN [i \in 1..Len(docs) |-> Unwrap(docs[i].lit)]

\* C3: a processed field with doc comment lines has a descriptor whose doc is
\* those lines joined by line feeds; one without has a descriptor with no doc.
C3_DocPreserved ==
    \A i \in 1..dIdx :
        LET lines == DocCommentLines(DerivedType.fields[i])
        IN Derived[i].doc_comments =
              IF lines = <<>> THEN None ELSE Some(Join(lines, <<NL>>))

\* The values that the serde attributes among attrs give to a name.
DeclaredValues(attrs, name) ==
    LET serde == {a \in Range(attrs) : a.path = "serde"}
        items == UNION {Range(a.nested) : a \in serde}
    IN {Unwrap(it.lit) : it \in {x \in items : x.name = name /\ IsSome(x.lit)}}

\* The conversions as the naming rules state them, by position: the
\* underscores are dropped and a character that follows one is uppercased.
RuleCamel(s) ==
    Concat([i \in 1..Len(s) |->
               IF s[i] = "_" THEN <<>>
               ELSE IF i > 1 /\ s[i - 1] = "_" THEN <<ToUpperChar(s[i])>>
               ELSE <<s[i]>>])
RulePascal(s) ==
    LET c == RuleCamel(s)
    IN [i \in 1..Len(c) |-> IF i = 1 THEN ToUpperChar(c[i]) ELSE c[i]]
RuleUpperSnake(s) == [i \in 1..Len(s) |-> ToUpperChar(s[i])]
RuleKebab(s) == [i \in 1..Len(s) |-> IF s[i] = "_" THEN "-" ELSE s[i]]
RuleConvert(style, s) ==
    CASE style = CamelCase -> RuleCamel(s)
      [] style = PascalCase -> RulePascal(s)
      [] style = ScreamingSnakeCase -> RuleUpperSnake(s)
      [] style = KebabCase -> RuleKebab(s)
      [] OTHER -> s

\* C5: a processed field's descriptor is named by the field's explicit rename,
\* verbatim, when it declares one; otherwise by its identifier converted by the
\* struct's rename_all style; and by its identifier unchanged when no style is
\* declared or the style is not a known one.
C5_NameResolution ==
    \A i \in 1..dIdx :
        LET f == DerivedType.fields[i]
            renames == DeclaredValues(f.attrs, "rename")
            styles == DeclaredValues(DerivedType.attrs, "rename_all")
            n == Derived[i].name
        IN IF renames # {} THEN n \in renames
           ELSE IF styles = {} THEN n = f.ident
           ELSE \E st \in styles : n = RuleConvert(st, f.ident)

C5_Witness ==
    /\ dIdx = 2
    /\ DeclaredValues(DerivedType.attrs, "rename_all") = {CamelCase}
    /\ DerivedType.fields = <<Decl2, Decl1>>
    /\ Derived[1].name = <<"x","_","y">>
    /\ Derived[2].name = <<"a","B">>

\* ------------------------------------------------------------------ export harness

TomlStr == <<"t","o","m","l">>

parse_format_Fallback(format_str) == Some("Toml")

\* match format_str.to_lowercase().as_str() { "toml" => Toml, _ => unimplemented!() }
\* None stands for the panic.
parse_format(format_str) ==
    IF ToLowercase(format_str) = TomlStr THEN Some("Toml") ELSE None

\* format!("{}.{}.md", struct_name, extension)
file_name(struct_name_str, extension) ==
    struct_name_str \o <<".">> \o extension \o <<".","m","d">>

\* Values of CONFIG_DOCS_FORMAT (None: not set).
EnvValues ==
    {None, Some(TomlStr), Some(<<"T","O","M","L">>), Some(<<"T","o","m","l">>),
     Some(<<"j","s","o","n">>), Some(<<"y","a","m","l">>), Some(<<>>)}

\* The docs directory and the document file in it, before the test runs.
OldText == <<"o","l","d",NL>>
FileSystems ==
    {[dir |-> FALSE, file |-> None], [dir |-> TRUE, file |-> None],
     [dir |-> TRUE, file |-> Some(OldText)]}

\* Definitions with #[config_docs(export)], the only ones with an export test.
ExportedS1 ==
    StructDef(<<"S">>, <<ListAttr("config_docs", <<PathItem("export")>>)>>,
              <<Decl1, Decl2>>)
ExportedS2 ==
    StructDef(<<"S">>,
              <<ListAttr("serde", <<NameValue("rename_all", CamelCase)>>),
                ListAttr("config_docs", <<PathItem("export")>>)>>,
              <<Decl4, Decl3>>)
ExportTargets ==
    {d \in {ConfigDef, GlobalDef, InnerDef, ExportedS1, ExportedS2} :
        should_export(d.attrs)}

InitE ==
    /\ eType \in {Some(d) : d \in ExportTargets}
    /\ eEnv \in EnvValues
    /\ ePc = "start"
    /\ eFormat = None
    /\ eFileName = None
    /\ eDocs = None
    /\ eFs \in {Some(f) : f \in FileSystems}
    /\ eFs0 = eFs
    /\ IdleFI /\ IdleB /\ IdleR /\ IdleD /\ IdleN

\* let format_str = env::var(..).unwrap_or_else(|_| "toml"); let format = match ..
E_parse_format ==
    /\ ePc = "start"
    /\ LET format_str == IF IsSome(eEnv) THEN Unwrap(eEnv) ELSE TomlStr
           format == parse_format(format_str)
       IN /\ eFormat' = format
          /\ ePc' = IF IsSome(format) THEN "parsed" ELSE "panicked"
    /\ UNCHANGED <<eType, eEnv, eFileName, eDocs, eFs, eFs0,
                   varsFI, varsB, varsR, varsD, varsN>>

\* let file_name = format!("{}.{}.md", struct_name, format.extension())
E_file_name ==
    /\ ePc = "parsed"
    /\ LET ext == ConfigFormat_extension(Unwrap(eFormat))
       IN IF ext.panicked
          THEN ePc' = "panicked" /\ UNCHANGED eFileName
          ELSE /\ ePc' = "named"
               /\ eFileName' = Some(file_name(Unwrap(eType).ident, ext.buf))
    /\ UNCHANGED <<eType, eEnv, eFormat, eDocs, eFs, eFs0,
                   varsFI, varsB, varsR, varsD, varsN>>

\* let docs = generate_config_docs_with_options::<T>(&MarkdownOptions::new(format))
E_generate ==
    /\ ePc = "named"
    /\ LET docs == generate_config_docs_with_options(
                       Schema(Unwrap(eType)), MarkdownOptions_new(Unwrap(eFormat)))
       IN IF docs.panicked
          THEN ePc' = "panicked" /\ UNCHANGED eDocs
          ELSE ePc' = "generated" /\ eDocs' = Some(docs.buf)
    /\ UNCHANGED <<eType, eEnv, eFormat, eFileName, eFs, eFs0,
                   varsFI, varsB, varsR, varsD, varsN>>

\* fs::create_dir_all(parent)
E_create_dir ==
    /\ ePc = "generated"
    /\ ePc' = "dir"
    /\ eFs' = Some([Unwrap(eFs) EXCEPT !.dir = TRUE])
    /\ UNCHANGED <<eType, eEnv, eFormat, eFileName, eDocs, eFs0,
                   varsFI, varsB, varsR, varsD, varsN>>

\* File::create(&file_path): the file is created, or emptied if it exists.
E_create_file ==
    /\ ePc = "dir"
    /\ ePc' = "file"
    /\ eFs' = Some([Unwrap(eFs) EXCEPT !.file = Some(<<>>)])
    /\ UNCHANGED <<eType, eEnv, eFormat, eFileName, eDocs, eFs0,
                   varsFI, varsB, varsR, varsD, varsN>>

\* file.write_all(docs.as_bytes())
E_write_all ==
    /\ ePc = "file"
    /\ ePc' = "written"
    /\ eFs' = Some([Unwrap(eFs) EXCEPT !.file = Some(Unwrap(eDocs))])
    /\ UNCHANGED <<eType, eEnv, eFormat, eFileName, eDocs, eFs0,
                   varsFI, varsB, varsR, varsD, varsN>>

NextE ==
    E_parse_format \/ E_file_name \/ E_generate \/ E_create_dir \/ E_create_file
    \/ E_write_all

SpecExport == InitE /\ [][NextE]_vars

\* ------------------------------------------------------------------ claims: formats

\* The values of CONFIG_DOCS_FORMAT that name a format: toml in any case.
RecognisedEnv ==
    {None, Some(TomlStr), Some(<<"T","O","M","L">>), Some(<<"T","o","m","l">>)}

====
